---------------------------- MODULE Spec2Model ----------------------------
(***************************************************************************)
(* Model of lib/geoprint.py: the base-4 geohash variant ("geoprint").      *)
(*                                                                         *)
(* Numbers.  The Python code works on floats.  Every quantity the codec    *)
(* computes is a coordinate or an interval bound obtained from 90 and 180  *)
(* by halving, which binary floating point does exactly at the depths      *)
(* explored here.  Degrees are therefore modelled as exact integers in     *)
(* units of 90 / 2^Grid degrees, and (min + max) / 2 as integer division   *)
(* of an even sum.  A geoprint is a sequence of one-character strings.     *)
(*                                                                         *)
(* Radians and the results of math.sin, cos, sqrt and atan2 are not        *)
(* dyadic; they are modelled in fixed point, One standing for 1.0, with    *)
(* the functions computed by truncated series.  The values agree with the  *)
(* floats to about three decimal places, and exactly at 0.                 *)
(***************************************************************************)
EXTENDS Integers, Sequences, FiniteSets, TLC

VARIABLES pc, latitude, longitude, precision, geoprint, loni, lati,
          arg, h, c2, adj, exc

vars == <<pc, latitude, longitude, precision, geoprint, loni, lati,
          arg, h, c2, adj, exc>>

(***************************************************************************)
(* Bounds of the exploration.                                              *)
(***************************************************************************)
\* longest geoprint handed to decode and largest precision handed to encode
MaxLen == 3

\* how many precisions below 1 are handed to encode: 0, -1, ...
LowPrecisions == 2

MinPrecision == 1 - LowPrecisions

RECURSIVE Pow2(_)
Pow2(n) == IF n <= 0 THEN 1 ELSE 2 * Pow2(n - 1)

\* Resolution of the coordinate grid: 90 degrees = 2^Grid units.
Grid == MaxLen

Deg90 == Pow2(Grid)
Deg180 == 2 * Deg90

Latitudes == (0 - Deg90)..Deg90
Longitudes == (0 - Deg180)..Deg180

None == "None"

Abs(x) == IF x < 0 THEN 0 - x ELSE x
Min(a, b) == IF a <= b THEN a ELSE b

(***************************************************************************)
(* Module-level values.                                                    *)
(***************************************************************************)
interval(lo, hi) == [min |-> lo, max |-> hi]

alphabet == <<"g", "a", "t", "c">>

\* alphabet is indexed from 0 in the source
decodemap == [k \in {alphabet[i] : i \in 1..4} |->
                (CHOOSE i \in 1..4 : alphabet[i] = k) - 1]

\* characters a caller may put in a string: the six of the geoprint
\* alphabet and one that belongs to neither part of it
Chars == {"w", "e", "g", "a", "t", "c", "x"}

\* the characters of the strings handed to adjacent
AdjacentChars == {"w", "e", "g", "c", "x"}

RECURSIVE StringsOfLen(_, _)
StringsOfLen(S, n) ==
    IF n = 0 THEN {<<>>}
    ELSE {Append(s, c) : s \in StringsOfLen(S, n - 1), c \in S}

StringsUpTo(S, n) == UNION {StringsOfLen(S, k) : k \in 0..n}

\* s[1:]
Tail1(s) == IF Len(s) = 0 THEN <<>> ELSE Tail(s)
\* s[:-1]
Front(s) == IF Len(s) = 0 THEN <<>> ELSE SubSeq(s, 1, Len(s) - 1)

\* x & 2 and x & 1 on the two-bit values of decodemap
Bit2(x) == (x \div 2) % 2 = 1
Bit1(x) == x % 2 = 1

(***************************************************************************)
(* math: radians in fixed point.                                           *)
(***************************************************************************)
\* 1.0
One == 10000
\* pi / 2
HalfPi == 15708
Pi == 2 * HalfPi

\* a * b and a / b on fixed-point numbers, truncating towards zero
FxMul(a, b) ==
    IF (a < 0) = (b < 0) THEN (Abs(a) * Abs(b)) \div One
    ELSE 0 - ((Abs(a) * Abs(b)) \div One)
FxDiv(a, b) == (a * One) \div b
\* x / 2 on a float
Half(x) == IF x < 0 THEN 0 - ((0 - x) \div 2) ELSE x \div 2

\* math.radians on a value in degrees (grid units): x * pi / 180
rads(x) ==
    IF x < 0 THEN 0 - (((0 - x) * HalfPi) \div Deg90)
    ELSE (x * HalfPi) \div Deg90

\* math.sin for |x| <= pi
sin(x) ==
    LET ax == Abs(x)
        r  == IF ax > HalfPi THEN Pi - ax ELSE ax
        x2 == FxMul(r, r)
        t4 == One - x2 \div 72
        t3 == One - FxMul(x2, t4) \div 42
        t2 == One - FxMul(x2, t3) \div 20
        t1 == One - FxMul(x2, t2) \div 6
        v  == FxMul(r, t1)
    IN IF x < 0 THEN 0 - v ELSE v

\* math.cos for |x| <= pi
cos(x) ==
    LET ax == Abs(x)
        r  == IF ax > HalfPi THEN Pi - ax ELSE ax
        x2 == FxMul(r, r)
        t5 == One - x2 \div 90
        t4 == One - FxMul(x2, t5) \div 56
        t3 == One - FxMul(x2, t4) \div 30
        t2 == One - FxMul(x2, t3) \div 12
        v  == One - FxMul(x2, t2) \div 2
    IN IF ax > HalfPi THEN 0 - v ELSE v

\* floor of the square root of a natural number, by bisection of lo..hi
RECURSIVE ISqrt(_, _, _)
ISqrt(n, lo, hi) ==
    IF lo >= hi THEN lo
    ELSE LET m == (lo + hi + 1) \div 2
         IN IF m * m <= n THEN ISqrt(n, m, hi) ELSE ISqrt(n, lo, m - 1)

\* math.sqrt for 0 <= v <= 2.0
sqrt(v) == ISqrt(v * One, 0, 2 * One)

\* math.atan for 0 <= t <= 1: atan t = 2 atan(t / (1 + sqrt(1 + t^2)))
atan(t) ==
    LET u  == FxDiv(t, One + sqrt(One + FxMul(t, t)))
        u2 == FxMul(u, u)
        s4 == One \div 7 - FxMul(u2, One \div 9)
        s3 == One \div 5 - FxMul(u2, s4)
        s2 == One \div 3 - FxMul(u2, s3)
        s1 == One - FxMul(u2, s2)
    IN 2 * FxMul(u, s1)

\* math.atan2(y, x) for y >= 0 and x >= 0, the quadrant distance uses
atan2(y, x) ==
    IF y = 0 THEN 0
    ELSE IF x = 0 THEN HalfPi
    ELSE IF y <= x THEN atan(FxDiv(y, x))
    ELSE HalfPi - atan(FxDiv(x, y))

(***************************************************************************)
(* encode, lines 47-93 (called in degrees: radians=False).                 *)
(***************************************************************************)
\* variant: the prime meridian is put in the western hemisphere
EncodeEntryWestZero(lat, lon) ==
    IF lon <= 0
    THEN [geoprint |-> <<"w">>,
          loni |-> interval(0 - Deg180, 0),
          lati |-> interval(0 - Deg90, Deg90)]
    ELSE [geoprint |-> <<"e">>,
          loni |-> interval(0, Deg180),
          lati |-> interval(0 - Deg90, Deg90)]

\* lines 67-74: hemisphere character and the initial intervals
EncodeEntry(lat, lon) ==
    IF lon < 0
    THEN [geoprint |-> <<"w">>,
          loni |-> interval(0 - Deg180, 0),
          lati |-> interval(0 - Deg90, Deg90)]
    ELSE [geoprint |-> <<"e">>,
          loni |-> interval(0, Deg180),
          lati |-> interval(0 - Deg90, Deg90)]

\* variant: the comparisons with the midpoints are not strict
EncodeBodyNotStrict(lat, lon, st) ==
    LET midlon == (st.loni.min + st.loni.max) \div 2
        lonbit == IF lon >= midlon THEN 2 ELSE 0
        loni2  == IF lon >= midlon
                  THEN interval(midlon, st.loni.max)
                  ELSE interval(st.loni.min, midlon)
        midlat == (st.lati.min + st.lati.max) \div 2
        latbit == IF lat >= midlat THEN 1 ELSE 0
        lati2  == IF lat >= midlat
                  THEN interval(midlat, st.lati.max)
                  ELSE interval(st.lati.min, midlat)
        ch     == lonbit + latbit
    IN [geoprint |-> Append(st.geoprint, alphabet[ch + 1]),
        loni |-> loni2,
        lati |-> lati2]

\* variant: the new character is put right after the hemisphere character
\* instead of at the end
EncodeBodyInsert(lat, lon, st) ==
    LET midlon == (st.loni.min + st.loni.max) \div 2
        lonbit == IF lon > midlon THEN 2 ELSE 0
        loni2  == IF lon > midlon
                  THEN interval(midlon, st.loni.max)
                  ELSE interval(st.loni.min, midlon)
        midlat == (st.lati.min + st.lati.max) \div 2
        latbit == IF lat > midlat THEN 1 ELSE 0
        lati2  == IF lat > midlat
                  THEN interval(midlat, st.lati.max)
                  ELSE interval(st.lati.min, midlat)
        ch     == lonbit + latbit
    IN [geoprint |-> <<Head(st.geoprint), alphabet[ch + 1]>> \o Tail(st.geoprint),
        loni |-> loni2,
        lati |-> lati2]

\* lines 77-92: one pass of the while loop
EncodeBody(lat, lon, st) ==
    LET midlon == (st.loni.min + st.loni.max) \div 2
        lonbit == IF lon > midlon THEN 2 ELSE 0
        loni2  == IF lon > midlon
                  THEN interval(midlon, st.loni.max)
                  ELSE interval(st.loni.min, midlon)
        midlat == (st.lati.min + st.lati.max) \div 2
        latbit == IF lat > midlat THEN 1 ELSE 0
        lati2  == IF lat > midlat
                  THEN interval(midlat, st.lati.max)
                  ELSE interval(st.lati.min, midlat)
        ch     == lonbit + latbit
    IN [geoprint |-> Append(st.geoprint, alphabet[ch + 1]),
        loni |-> loni2,
        lati |-> lati2]

\* variant: the guard is off by one
EncodeGuardInclusive(st, prec) == Len(st.geoprint) <= prec

\* variant: the body runs once before the guard is first tested
EncodeGuardDoWhile(st, prec) ==
    Len(st.geoprint) < prec \/ Len(st.geoprint) = 1

\* line 76: the loop guard
EncodeGuard(st, prec) == Len(st.geoprint) < prec

RECURSIVE EncodeWhile(_, _, _, _)
EncodeWhile(lat, lon, prec, st) ==
    IF EncodeGuard(st, prec)
    THEN EncodeWhile(lat, lon, prec, EncodeBody(lat, lon, st))
    ELSE st

encode(lat, lon, prec) ==
    EncodeWhile(lat, lon, prec, EncodeEntry(lat, lon)).geoprint

(***************************************************************************)
(* error, lines 145-154.  90.0 * 2^-(len - 1) = 180 / 2^len.               *)
(***************************************************************************)
error(g, radians) ==
    LET e == Deg180 \div Pow2(Len(g))
    IN IF radians THEN rads(e) ELSE e

(***************************************************************************)
(* decode, lines 96-142, in degrees.  The result is a record: exc is the   *)
(* exception that escapes ("none" when the call returns), lat and lon the  *)
(* returned pair.                                                          *)
(***************************************************************************)
Raise(e) == [exc |-> e, lat |-> None, lon |-> None]

\* variant: the longitude and latitude bits are tested the wrong way round
DecodeBodySwapped(c, st) ==
    IF c \notin DOMAIN decodemap THEN [st EXCEPT !.exc = "KeyError"]
    ELSE IF ~st.bound THEN [st EXCEPT !.exc = "UnboundLocalError"]
    ELSE LET cd == decodemap[c]
             midlon == (st.loni.min + st.loni.max) \div 2
             midlat == (st.lati.min + st.lati.max) \div 2
         IN [exc  |-> "none",
             bound |-> TRUE,
             loni |-> IF Bit1(cd) THEN interval(midlon, st.loni.max)
                                  ELSE interval(st.loni.min, midlon),
             lati |-> IF Bit2(cd) THEN interval(midlat, st.lati.max)
                                  ELSE interval(st.lati.min, midlat)]

\* variant: an unknown character is looked up with a default of 0
\* (decodemap.get(c, 0)) instead of raising KeyError
DecodeBodyLenient(c, st) ==
    IF ~st.bound THEN [st EXCEPT !.exc = "UnboundLocalError"]
    ELSE LET cd == IF c \in DOMAIN decodemap THEN decodemap[c] ELSE 0
             midlon == (st.loni.min + st.loni.max) \div 2
             midlat == (st.lati.min + st.lati.max) \div 2
         IN [exc  |-> "none",
             bound |-> TRUE,
             loni |-> IF Bit2(cd) THEN interval(midlon, st.loni.max)
                                  ELSE interval(st.loni.min, midlon),
             lati |-> IF Bit1(cd) THEN interval(midlat, st.lati.max)
                                  ELSE interval(st.lati.min, midlat)]

\* lines 129-137: one pass of the for loop over character c
DecodeBody(c, st) ==
    IF c \notin DOMAIN decodemap THEN [st EXCEPT !.exc = "KeyError"]
    ELSE IF ~st.bound THEN [st EXCEPT !.exc = "UnboundLocalError"]
    ELSE LET cd == decodemap[c]
             midlon == (st.loni.min + st.loni.max) \div 2
             midlat == (st.lati.min + st.lati.max) \div 2
         IN [exc  |-> "none",
             bound |-> TRUE,
             loni |-> IF Bit2(cd) THEN interval(midlon, st.loni.max)
                                  ELSE interval(st.loni.min, midlon),
             lati |-> IF Bit1(cd) THEN interval(midlat, st.lati.max)
                                  ELSE interval(st.lati.min, midlat)]

RECURSIVE DecodeFor(_, _)
DecodeFor(s, st) ==
    IF Len(s) = 0 \/ st.exc # "none" THEN st
    ELSE DecodeFor(Tail(s), DecodeBody(Head(s), st))

\* variant: the lower corner of the cell is returned, not its centre
DecodeReturnCorner(st, radians) ==
    IF st.exc # "none" THEN Raise(st.exc)
    ELSE IF ~st.bound THEN Raise("UnboundLocalError")
    ELSE IF radians
    THEN [exc |-> "none", lat |-> rads(st.lati.min), lon |-> rads(st.loni.min)]
    ELSE [exc |-> "none", lat |-> st.lati.min, lon |-> st.loni.min]

\* lines 138-142: the midpoints of the final intervals
DecodeReturn(st, radians) ==
    IF st.exc # "none" THEN Raise(st.exc)
    ELSE IF ~st.bound THEN Raise("UnboundLocalError")
    ELSE LET lat == (st.lati.min + st.lati.max) \div 2
             lon == (st.loni.min + st.loni.max) \div 2
         IN IF radians
            THEN [exc |-> "none", lat |-> rads(lat), lon |-> rads(lon)]
            ELSE [exc |-> "none", lat |-> lat, lon |-> lon]

\* lines 119-126: the hemisphere character.  When it is neither 'w' nor
\* 'e' no branch assigns loni: the local stays unbound (bound = FALSE) and
\* the first read of it raises UnboundLocalError.
DecodeEntry(g) ==
    [exc   |-> "none",
     lati  |-> interval(0 - Deg90, Deg90),
     bound |-> g[1] \in {"w", "e"},
     loni  |-> IF g[1] = "w" THEN interval(0 - Deg180, 0)
               ELSE interval(0, Deg180)]

decode(g, radians) ==
    IF Len(g) = 0 THEN Raise("IndexError")
    ELSE DecodeReturn(DecodeFor(Tail1(g), DecodeEntry(g)), radians)

(***************************************************************************)
(* distance with radians=True, lines 164-181: the haversine formula on the *)
(* two decoded centres.  exc is the exception decode let escape.           *)
(***************************************************************************)
distance(start, end) ==
    LET s == decode(start, TRUE)
        e == decode(end, TRUE)
    IN IF s.exc # "none" THEN [exc |-> s.exc, val |-> None]
       ELSE IF e.exc # "none" THEN [exc |-> e.exc, val |-> None]
       ELSE LET d_lat  == e.lat - s.lat
                d_long == e.lon - s.lon
                a == FxMul(sin(Half(d_lat)), sin(Half(d_lat)))
                     + FxMul(FxMul(cos(s.lat), cos(e.lat)),
                             FxMul(sin(Half(d_long)), sin(Half(d_long))))
                c == 2 * atan2(sqrt(a), sqrt(One - a))
            IN [exc |-> "none", val |-> c]

(***************************************************************************)
(* adjacent, lines 254-266.                                                *)
(***************************************************************************)
\* line 259: the least length adjacent accepts
MinAdjacentLen == 3

\* lines 262-264: h, the diagonal of the summed half errors
AdjacentBound(first, second) ==
    LET maxe  == Half(error(first, TRUE)) + Half(error(second, TRUE))
        maxe2 == FxMul(maxe, maxe)
    IN sqrt(maxe2 + maxe2)

\* variant: the longer of the two lengths is tested
AdjacentLengthCheckMax(first, second) ==
    (IF Len(first) >= Len(second) THEN Len(first) ELSE Len(second))
        < MinAdjacentLen

\* line 259
AdjacentLengthCheck(first, second) ==
    Min(Len(first), Len(second)) < MinAdjacentLen

adjacent(first, second) ==
    IF AdjacentLengthCheck(first, second)
    THEN [exc |-> "TypeError", val |-> None]
    ELSE LET hh == AdjacentBound(first, second)
             d  == distance(first, second)
         IN IF d.exc # "none" THEN [exc |-> d.exc, val |-> None]
            ELSE [exc |-> "none", val |-> (hh <= d.val)]

(***************************************************************************)
(* The calls.                                                              *)
(***************************************************************************)
Init ==
    /\ pc = "idle"
    /\ latitude = None /\ longitude = None /\ precision = None
    /\ geoprint = <<>> /\ loni = None /\ lati = None
    /\ arg = <<>> /\ h = None /\ c2 = None /\ adj = None /\ exc = "none"

\* encode(lat, lon, prec) is entered: lines 67-74
EncodeCall ==
    /\ pc = "idle"
    /\ \E lat \in Latitudes, lon \in Longitudes, prec \in MinPrecision..MaxLen :
         /\ latitude' = lat /\ longitude' = lon /\ precision' = prec
         /\ geoprint' = EncodeEntry(lat, lon).geoprint
         /\ loni' = EncodeEntry(lat, lon).loni
         /\ lati' = EncodeEntry(lat, lon).lati
    /\ pc' = "encode"
    /\ UNCHANGED <<arg, h, c2, adj, exc>>

\* one pass of encode's while loop: lines 76-92
EncodeLoop ==
    /\ pc = "encode"
    /\ EncodeGuard([geoprint |-> geoprint], precision)
    /\ LET st == EncodeBody(latitude, longitude,
                            [geoprint |-> geoprint, loni |-> loni, lati |-> lati])
       IN /\ geoprint' = st.geoprint
          /\ loni' = st.loni
          /\ lati' = st.lati
    /\ UNCHANGED <<pc, latitude, longitude, precision, arg, h, c2, adj, exc>>

\* encode returns ''.join(geoprint): line 93
EncodeReturn ==
    /\ pc = "encode"
    /\ ~EncodeGuard([geoprint |-> geoprint], precision)
    /\ h' = geoprint
    /\ pc' = "encoded"
    /\ UNCHANGED <<latitude, longitude, precision, geoprint, loni, lati,
                   arg, c2, adj, exc>>

\* c2 = decode(h) on the geoprint encode returned: the docstring's
\* round trip, lines 101-108
DecodeEncoded ==
    /\ pc = "encoded"
    /\ LET r == decode(h, FALSE)
       IN /\ exc' = r.exc
          /\ c2' = IF r.exc = "none" THEN <<r.lat, r.lon>> ELSE None
    /\ pc' = "roundtrip"
    /\ UNCHANGED <<latitude, longitude, precision, geoprint, loni, lati,
                   arg, h, adj>>

\* decode(g) on a caller's string: lines 119-142
DecodeCall ==
    /\ pc = "idle"
    /\ \E g \in StringsUpTo(Chars, MaxLen) :
         /\ arg' = <<g>>
         /\ LET r == decode(g, FALSE)
            IN /\ exc' = r.exc
               /\ c2' = IF r.exc = "none" THEN <<r.lat, r.lon>> ELSE None
               /\ pc' = IF r.exc = "none" THEN "decoded" ELSE "raised"
    /\ UNCHANGED <<latitude, longitude, precision, geoprint, loni, lati, h, adj>>

\* encode(*c2, precision) on the coordinate decode returned, at the length
\* of the decoded geoprint or one more: lines 67-74
EncodeDecoded ==
    /\ pc = "decoded"
    /\ \E prec \in {Len(arg[1]), Len(arg[1]) + 1} :
         /\ latitude' = c2[1] /\ longitude' = c2[2] /\ precision' = prec
         /\ geoprint' = EncodeEntry(c2[1], c2[2]).geoprint
         /\ loni' = EncodeEntry(c2[1], c2[2]).loni
         /\ lati' = EncodeEntry(c2[1], c2[2]).lati
    /\ pc' = "encode"
    /\ UNCHANGED <<arg, h, c2, adj, exc>>

\* adjacent(first, second) on two caller's strings: lines 259-266
AdjacentCall ==
    /\ pc = "idle"
    /\ \E first \in StringsUpTo(AdjacentChars, MaxLen),
          second \in StringsUpTo(AdjacentChars, MaxLen) :
         /\ arg' = <<first, second>>
         /\ LET r == adjacent(first, second)
            IN /\ exc' = r.exc
               /\ adj' = r.val
               /\ pc' = IF r.exc = "none" THEN "adjacent" ELSE "adjacent_raised"
    /\ UNCHANGED <<latitude, longitude, precision, geoprint, loni, lati, h, c2>>

Next ==
    \/ EncodeCall
    \/ EncodeLoop
    \/ EncodeReturn
    \/ DecodeEncoded
    \/ DecodeCall
    \/ EncodeDecoded

Spec == Init /\ [][Next]_vars

\* the calls of adjacent alone
NextAdjacent == AdjacentCall

SpecAdjacent == Init /\ [][NextAdjacent]_vars

(***************************************************************************)
(* Properties.                                                             *)
(***************************************************************************)
WellFormed(g) ==
    /\ Len(g) >= 1
    /\ g[1] \in {"w", "e"}
    /\ \A i \in 2..Len(g) : g[i] \in {"g", "a", "t", "c"}

\* C1 (round-trip bound): when encode was called with a precision p >= 1 on
\* a coordinate and decode is applied to the geoprint g it returned, decode
\* returns a coordinate whose latitude and longitude each differ from the
\* original by at most error(g), and error(g) is 90 * 2^-(p-1) degrees.
RoundTripBound ==
    (pc = "roundtrip" /\ precision >= 1) =>
        /\ exc = "none"
        /\ error(h, FALSE) * Pow2(precision - 1) = Deg90
        /\ Abs(latitude - c2[1]) <= error(h, FALSE)
        /\ Abs(longitude - c2[2]) <= error(h, FALSE)

\* the bound is attained: a coordinate on the edge of its cell, at the
\* largest precision
RoundTripWitness ==
    /\ pc = "roundtrip" /\ precision = MaxLen
    /\ arg = <<>>
    /\ Abs(latitude - c2[1]) = error(h, FALSE)
    /\ Abs(longitude - c2[2]) = error(h, FALSE)

\* C2 (prefix stability): the geoprint encode returns at precision p >= 2,
\* with its last character removed, is the geoprint encode returns for the
\* same coordinate at precision p - 1.
PrefixStability ==
    (pc = "encoded" /\ precision >= 2) =>
        Front(h) = encode(latitude, longitude, precision - 1)

PrefixWitness ==
    /\ pc = "encoded" /\ precision = MaxLen /\ precision >= 2
    /\ Len(h) = MaxLen
    /\ h[MaxLen] = "t" /\ h[MaxLen - 1] = "a"

\* C4 as stated: encode called with a precision below 1 fails with a
\* DomainError and returns no geoprint.
EncodeRejectsLowPrecision ==
    (pc = "encoded" /\ precision < 1) => (exc = "DomainError" /\ h = None)

\* C4 as amended: encode called with a precision below 1 raises nothing and
\* returns the one-character geoprint made of the hemisphere character.
EncodeLowPrecisionHemisphereOnly ==
    (pc = "encoded" /\ precision < 1) =>
        /\ exc = "none"
        /\ h = <<IF longitude < 0 THEN "w" ELSE "e">>

LowPrecisionWitness ==
    /\ pc = "encoded" /\ precision < 0
    /\ longitude < 0 /\ h = <<"w">>

\* C5: decode raises an error and returns no coordinate for every string
\* that is empty, or does not start with 'w' or 'e', or holds a character
\* outside 'gatc' after the first.
DecodeRejectsMalformed ==
    (Len(arg) = 1 /\ ~WellFormed(arg[1])) =>
        (pc = "raised" /\ exc # "none" /\ c2 = None)

\* a valid hemisphere and a valid second character, then a bad last one
DecodeRejectsWitness ==
    /\ pc = "raised" /\ Len(arg[1]) = MaxLen /\ MaxLen >= 3
    /\ arg[1][1] = "w" /\ arg[1][2] = "c" /\ arg[1][MaxLen] = "e"
    /\ exc = "KeyError"

\* C6: for a precision p >= 1 encode returns exactly p characters, the
\* first 'w' or 'e' and every later one among 'g', 'a', 't', 'c'.
EncodeShape ==
    (pc = "encoded" /\ precision >= 1) =>
        /\ Len(h) = precision
        /\ h[1] \in {"w", "e"}
        /\ \A i \in 2..Len(h) : h[i] \in {"g", "a", "t", "c"}

EncodeShapeWitness ==
    /\ pc = "encoded" /\ precision = MaxLen /\ arg = <<>>
    /\ Len(h) = MaxLen /\ h[1] = "e" /\ h[MaxLen] = "c"

\* C7 (hemisphere): for a precision p >= 1 the first character of the
\* geoprint is 'w' exactly when the longitude is negative and 'e' otherwise,
\* longitude 0 included, whatever the latitude.
HemisphereInvariant ==
    (pc = "encoded" /\ precision >= 1) =>
        /\ (h[1] = "w") <=> (longitude < 0)
        /\ (h[1] = "e") <=> (longitude >= 0)

HemisphereWitness ==
    /\ pc = "encoded" /\ precision >= 1
    /\ longitude = 0 /\ latitude < 0 /\ h[1] = "e"

\* C9 (tie-break): in every pass of encode's loop, a longitude equal to the
\* midpoint of the longitude interval narrows it to its lower half and a
\* greater one to its upper half, likewise the latitude, and the character
\* appended is 'gatc'[2*lonbit + latbit], a bit being set exactly when the
\* upper half was taken.
TieBreakLowerHalf ==
    [][(pc = "encode" /\ pc' = "encode" /\ geoprint' # geoprint) =>
        LET midlon == (loni.min + loni.max) \div 2
            midlat == (lati.min + lati.max) \div 2
            lonbit == IF loni' = interval(midlon, loni.max) THEN 1 ELSE 0
            latbit == IF lati' = interval(midlat, lati.max) THEN 1 ELSE 0
        IN /\ longitude = midlon => loni' = interval(loni.min, midlon)
           /\ longitude > midlon => loni' = interval(midlon, loni.max)
           /\ latitude = midlat => lati' = interval(lati.min, midlat)
           /\ latitude > midlat => lati' = interval(midlat, lati.max)
           /\ geoprint' = Append(geoprint, alphabet[2 * lonbit + latbit + 1])
      ]_vars

\* both coordinates sat on the midpoints of the pass just made: the lower
\* halves were taken (the coordinate is the new upper bound) and 'g' emitted
TieBreakWitness ==
    /\ pc = "encode" /\ Len(geoprint) >= 3
    /\ longitude = loni.max /\ latitude = lati.max
    /\ loni.max < Deg180 /\ lati.max < Deg90
    /\ geoprint[Len(geoprint)] = "g"
    /\ geoprint[Len(geoprint) - 1] = "c"

\* C10 (decode is a right inverse of encode on cell centres): encode applied
\* to the coordinate decode returned for a well-formed geoprint g of length
\* n returns g at precision n, and g followed by 'g' at precision n + 1.
CentreReencodes ==
    (pc = "encoded" /\ Len(arg) = 1) =>
        /\ WellFormed(arg[1])
        /\ precision = Len(arg[1]) => h = arg[1]
        /\ precision = Len(arg[1]) + 1 => h = Append(arg[1], "g")

CentreReencodesWitness ==
    /\ pc = "encoded" /\ Len(arg) = 1
    /\ Len(arg[1]) = MaxLen /\ arg[1][MaxLen] = "c"
    /\ precision = MaxLen + 1
    /\ h = Append(arg[1], "g")

\* C3 as stated: for two well-formed geoprints of length >= 3, adjacent
\* returns true exactly when their distance in radians is at most
\* h = sqrt(2 * maxe^2), maxe the sum of their half errors; a geoprint is
\* then adjacent to itself.
AdjacentIffWithinBound ==
    pc = "adjacent" =>
        adj = (distance(arg[1], arg[2]).val <= AdjacentBound(arg[1], arg[2]))

\* C8: adjacent raises an error and returns nothing whenever the shorter of
\* its two arguments has fewer than 3 characters, whatever the characters;
\* when both have at least 3 the length check raises nothing.
AdjacentLengthError ==
    pc \in {"adjacent", "adjacent_raised"} =>
        /\ Min(Len(arg[1]), Len(arg[2])) < 3 =>
              (pc = "adjacent_raised" /\ exc = "TypeError" /\ adj = None)
        /\ Min(Len(arg[1]), Len(arg[2])) >= 3 => exc # "TypeError"

\* a well-formed geoprint of full length against a well-formed one of
\* length 2
AdjacentLengthWitness ==
    /\ pc = "adjacent_raised" /\ exc = "TypeError"
    /\ Len(arg[1]) = MaxLen /\ Len(arg[2]) = 2
    /\ WellFormed(arg[1]) /\ WellFormed(arg[2])

=============================================================================
